---------------------------- MODULE Spec2Model ----------------------------
(***************************************************************************)
(* scripts/generate_app_icon.py: the icon generator of Sunlight Tracker.   *)
(*                                                                         *)
(* The script is modelled as a process that is started, imports PIL, and   *)
(* runs main(): mkdir, one draw_icon call, then for every size a select    *)
(* (master or resize), a save and a print.  Every library call that can    *)
(* raise is one step; the environment decides whether it raises.  The      *)
(* script may be started again on the file system the previous run left.   *)
(*                                                                         *)
(* Lengths are in pixels; the float coordinates of draw_icon (size * 0.5,  *)
(* size * 0.48, ...) are kept exactly, in hundredths of a pixel.  Ray      *)
(* vertices are kept in polar form about the apex (length, angle in        *)
(* degrees): the code computes them as apex + len * (cos a, -sin a).       *)
(***************************************************************************)
EXTENDS Integers, Sequences, FiniteSets, TLC

VARIABLES
    run,          \* number of the current invocation of the script (1, 2, ...)
    pc,           \* position of the current invocation
    idx,          \* position of the for loop in SIZES (1-based)
    argv,         \* command-line arguments of the current invocation
    environ,      \* environment variables of the current invocation
    pilInstalled, \* whether "from PIL import Image, ImageDraw" succeeds
    master,       \* main's local: the master render
    out,          \* main's local: the image about to be saved
    opLog,        \* the library calls that returned normally, in order
    stdout,       \* lines printed to standard output
    stderr,       \* lines printed to the error stream
    exitStatus,   \* process exit status (-1 while running)
    raisedAt,     \* the step whose call raised, and idx there
    dirState,     \* what is at OUT_DIR
    files,        \* the files in OUT_DIR: name -> content
    fsAtStart,    \* <<dirState, files>> when the current invocation started
    prev,         \* summary of the invocation before the current one
    probeArg,     \* argument of the next direct draw_icon call
    rendered      \* results of the direct draw_icon calls

procVars == <<run, pc, idx, argv, environ, pilInstalled, master, out, opLog,
              stdout, stderr, exitStatus, raisedAt, fsAtStart, prev>>
fsVars == <<dirState, files>>
probeVars == <<probeArg, rendered>>
vars == <<procVars, fsVars, probeVars>>

---------------------------------------------------------------------------
(* Bounds of the model *)

\* invocations of the script in a row
MaxRuns == 2
\* largest size passed to draw_icon directly (main passes MASTER_SIZE only)
MaxDrawSize == 1100

---------------------------------------------------------------------------
(* Module-level constants of the script *)

\* Variant: the list in descending order.
SIZESDescending == <<1024, 512, 256, 128, 64, 32, 16>>
SIZES == <<16, 32, 64, 128, 256, 512, 1024>>
MASTER_SIZE == 1024
LANCZOS == "LANCZOS"

Max(a, b) == IF a >= b THEN a ELSE b

---------------------------------------------------------------------------
(* draw_icon *)

\* A layer painted on the canvas.  Every shape carries the same fields so
\* that layers compare; the fields a shape does not use are 0.
Layer(shape, box, radius, width, fill, outline, apex, len, lo, hi) ==
    [shape |-> shape, box |-> box, radius |-> radius, width |-> width,
     fill |-> fill, outline |-> outline, apex |-> apex, len |-> len,
     lo |-> lo, hi |-> hi]

NoColor == <<0, 0, 0, 0>>

\* No image (None).
NoImage == [w |-> 0, h |-> 0, mode |-> "", bg |-> NoColor, layers |-> <<>>,
            gen |-> 0, filter |-> ""]

\* Image.new("RGBA", (size, size), (0, 0, 0, 0)): gen counts the resizes
\* between the drawn canvas and this image.
NewImage(size) ==
    [w |-> size, h |-> size, mode |-> "RGBA", bg |-> <<0, 0, 0, 0>>,
     layers |-> <<>>, gen |-> 0, filter |-> ""]

\* draw.<shape>(...): paints over whatever the canvas holds.
Paint(img, layer) == [img EXCEPT !.layers = Append(@, layer)]

\* radius = max(2, int(size * 0.18)).  int() truncates the double product;
\* for every size in 1..5000 the double product truncates to
\* floor(18 * size / 100).
\* Variant: the radius without its lower limit.
CornerRadiusBug(size) == (size * 18) \div 100
CornerRadius(size) == Max(2, (size * 18) \div 100)

\* width = max(1, int(2 * scale)), scale = size / MASTER_SIZE: a division by
\* a power of two and a doubling, both exact in binary floating point.
OutlineWidth(size) == Max(1, (2 * size) \div MASTER_SIZE)

\* cx, cy = size * 0.5, size * 0.48, in hundredths of a pixel
Centre(size) == <<size * 50, size * 48>>
\* r_sun = size * 0.26, in hundredths of a pixel
SunRadius(size) == size * 26
\* ray_len = size * 0.4, in hundredths of a pixel
RayLen(size) == size * 40
ray_width_deg == 20
\* range(8)
NumRays == 8
\* angle_deg = i * 45
RayStep == 45

Background(size) ==
    Layer("rounded_rectangle", <<0, 0, size - 1, size - 1>>,
          CornerRadius(size), 0, <<220, 120, 50, 255>>, NoColor,
          <<0, 0>>, 0, 0, 0)

Sun(size) ==
    LET c == Centre(size)
        r == SunRadius(size)
    IN  Layer("ellipse", <<c[1] - r, c[2] - r, c[1] + r, c[2] + r>>, 0,
              OutlineWidth(size), <<255, 248, 220, 255>>,
              <<255, 220, 150, 255>>, <<0, 0>>, 0, 0, 0)

\* One pass of the loop body: the polygon [cx, cy, x1, y1, x2, y2].
\* Variant: rays 25 degrees to either side.
RayWide(size, i) ==
    Layer("polygon", <<0, 0, 0, 0>>, 0, 0, <<255, 230, 160, 255>>, NoColor,
          Centre(size), RayLen(size),
          i * RayStep - (ray_width_deg + 5), i * RayStep + (ray_width_deg + 5))
Ray(size, i) ==
    Layer("polygon", <<0, 0, 0, 0>>, 0, 0, <<255, 230, 160, 255>>, NoColor,
          Centre(size), RayLen(size),
          i * RayStep - ray_width_deg, i * RayStep + ray_width_deg)

\* for i in range(8): draw.polygon(...), from pass i on
RECURSIVE PaintRays(_, _, _)
PaintRays(img, size, i) ==
    IF i >= NumRays THEN img
    ELSE PaintRays(Paint(img, Ray(size, i)), size, i + 1)

\* Variant: a render whose size an environment variable overrides.
DrawIconEnv(size) ==
    LET s == IF environ # {} THEN size \div 2 ELSE size
    IN  PaintRays(Paint(Paint(NewImage(s), Background(s)), Sun(s)), s, 0)
DrawIcon(size) ==
    PaintRays(Paint(Paint(NewImage(size), Background(size)), Sun(size)),
              size, 0)

---------------------------------------------------------------------------
(* The file system at OUT_DIR *)

\* f"icon_{s}.png"
\* Variant: one name for every size.
IconNameFixed(s) == "icon.png"
IconName(s) == "icon_" \o ToString(s) \o ".png"

\* What a file holds: a complete PNG of an image, the remains of a save
\* that raised, or content this script never wrote.
Png(img) == [kind |-> "png", img |-> img]
Partial == [kind |-> "partial", img |-> NoImage]
Stale == [kind |-> "stale", img |-> NoImage]

NoFiles == [n \in {} |-> Stale]
ForeignOnly == ("Contents.json" :> Stale)
StaleIcons ==
    [n \in {IconName(16), IconName(1024), "Contents.json"} |-> Stale]

\* What the script may find at OUT_DIR: the path with its parents missing,
\* the path missing, a regular file at the path, or the directory with
\* files in it.
InitialFs ==
    {<<"no_parents", NoFiles>>, <<"absent", NoFiles>>,
     <<"not_a_dir", NoFiles>>, <<"dir", NoFiles>>, <<"dir", ForeignOnly>>,
     <<"dir", StaleIcons>>}

\* Inputs the script never reads.
ArgvChoices == {<<>>, <<"--size", "32">>}
EnvChoices == {{}, {"ICON_SIZE"}}

\* OUT_DIR.mkdir(parents=True, exist_ok=True) raises on its own account only
\* when the path exists and is not a directory.
\* Variant: mkdir without exist_ok.
MkdirRaisesNoExistOk(state) == state \in {"not_a_dir", "dir"}
MkdirRaises(state) == state = "not_a_dir"

\* open(path, "wb") and the write: the file is created or replaced.
WriteFile(fs, name, content) ==
    [n \in DOMAIN fs \cup {name} |-> IF n = name THEN content ELSE fs[n]]

---------------------------------------------------------------------------
(* main *)

Entry(op, name, size, img, src, how) ==
    [op |-> op, name |-> name, size |-> size, img |-> img, src |-> src,
     how |-> how]

NotRaised == [step |-> "", idx |-> 0, exc |-> ""]

\* master.resize((s, s), Image.Resampling.LANCZOS): a new image, the source
\* is left as it is.
\* Variant: a resize that keeps the height.
ResizeWidthOnly(img, s, filter) ==
    [img EXCEPT !.w = s, !.gen = @ + 1, !.filter = filter]
Resize(img, s, filter) ==
    [img EXCEPT !.w = s, !.h = s, !.gen = @ + 1, !.filter = filter]

\* The source of the resize in the loop body.
\* Variant: each resize takes the previous output.
ResizeSourceChained == IF out = NoImage THEN master ELSE out
ResizeSource == master

\* An uncaught exception: the traceback goes to the error stream and the
\* process ends with status 1.  main has no try statement.
\* Variant: a failed save is caught and the loop goes on.
RaiseAndGoOn(step, exc) ==
    /\ pc' = IF step = "save" THEN "wrote" ELSE "raised"
    /\ raisedAt' = [step |-> step, idx |-> idx, exc |-> exc]
    /\ stderr' = Append(stderr, "Traceback (most recent call last)")
    /\ exitStatus' = IF step = "save" THEN exitStatus ELSE 1
    /\ UNCHANGED <<run, idx, argv, environ, pilInstalled, master, out, opLog,
                   stdout, fsAtStart, prev>>
Raise(step, exc) ==
    /\ pc' = "raised"
    /\ raisedAt' = [step |-> step, idx |-> idx, exc |-> exc]
    /\ stderr' = Append(stderr, "Traceback (most recent call last)")
    /\ exitStatus' = 1
    /\ UNCHANGED <<run, idx, argv, environ, pilInstalled, master, out, opLog,
                   stdout, fsAtStart, prev>>

\* try: from PIL import Image, ImageDraw / except ImportError: print, exit
\* Variant: the except branch prints and does not exit.
ImportNoExit ==
    /\ pc = "import"
    /\ IF pilInstalled
       THEN /\ pc' = "mkdir"
            /\ UNCHANGED <<stderr, exitStatus>>
       ELSE /\ stderr' = Append(stderr, "Install Pillow: pip install Pillow")
            /\ exitStatus' = exitStatus
            /\ pc' = "mkdir"
    /\ UNCHANGED <<run, idx, argv, environ, pilInstalled, master, out, opLog,
                   stdout, raisedAt, fsAtStart, prev>>
    /\ UNCHANGED <<fsVars, probeVars>>
ImportPIL ==
    /\ pc = "import"
    /\ IF pilInstalled
       THEN /\ pc' = "mkdir"
            /\ UNCHANGED <<stderr, exitStatus>>
       ELSE /\ stderr' = Append(stderr, "Install Pillow: pip install Pillow")
            /\ exitStatus' = 1
            /\ pc' = "exited"
    /\ UNCHANGED <<run, idx, argv, environ, pilInstalled, master, out, opLog,
                   stdout, raisedAt, fsAtStart, prev>>
    /\ UNCHANGED <<fsVars, probeVars>>

\* OUT_DIR.mkdir(parents=True, exist_ok=True)
Mkdir ==
    /\ pc = "mkdir"
    /\ \E fault \in BOOLEAN :
         IF fault \/ MkdirRaises(dirState)
         THEN /\ Raise("mkdir", IF MkdirRaises(dirState)
                                THEN "FileExistsError" ELSE "PermissionError")
              /\ UNCHANGED fsVars
         ELSE /\ dirState' = "dir"
              /\ files' = files
              /\ opLog' = Append(opLog, Entry("mkdir", "OUT_DIR", 0, NoImage,
                                              NoImage, "parents,exist_ok"))
              /\ pc' = "draw"
              /\ UNCHANGED <<run, idx, argv, environ, pilInstalled, master,
                             out, stdout, stderr, exitStatus, raisedAt,
                             fsAtStart, prev>>
    /\ UNCHANGED probeVars

\* master = draw_icon(MASTER_SIZE), then the for loop is entered
DrawMaster ==
    /\ pc = "draw"
    /\ \E fault \in BOOLEAN :
         IF fault
         THEN Raise("draw_icon", "MemoryError")
         ELSE /\ master' = DrawIcon(MASTER_SIZE)
              /\ opLog' = Append(opLog, Entry("draw_icon", "", MASTER_SIZE,
                                              DrawIcon(MASTER_SIZE), NoImage,
                                              ""))
              /\ idx' = 1
              /\ pc' = IF Len(SIZES) = 0 THEN "print_done" ELSE "select"
              /\ UNCHANGED <<run, argv, environ, pilInstalled, out, stdout,
                             stderr, exitStatus, raisedAt, fsAtStart,
                             prev>>
    /\ UNCHANGED <<fsVars, probeVars>>

\* if s == MASTER_SIZE: out = master / else: out = master.resize(...)
SelectOut ==
    /\ pc = "select"
    /\ LET s == SIZES[idx]
       IN  IF s = MASTER_SIZE
           THEN /\ out' = master
                /\ pc' = "save"
                /\ UNCHANGED <<run, idx, argv, environ, pilInstalled, master,
                               opLog, stdout, stderr, exitStatus, raisedAt,
                               fsAtStart, prev>>
           ELSE \E fault \in BOOLEAN :
                  IF fault
                  THEN Raise("resize", "MemoryError")
                  ELSE /\ out' = Resize(ResizeSource, s, LANCZOS)
                       /\ opLog' = Append(opLog,
                              Entry("resize", "", s,
                                    Resize(ResizeSource, s, LANCZOS),
                                    ResizeSource, LANCZOS))
                       /\ pc' = "save"
                       /\ UNCHANGED <<run, idx, argv, environ, pilInstalled,
                                      master, stdout, stderr, exitStatus,
                                      raisedAt, fsAtStart, prev>>
    /\ UNCHANGED <<fsVars, probeVars>>

\* out.save(OUT_DIR / f"icon_{s}.png", "PNG").  A save that raises has not
\* opened the file, or has opened it and left it incomplete.
Save ==
    /\ pc = "save"
    /\ LET name == IconName(SIZES[idx])
       IN  \E fault \in BOOLEAN, opened \in BOOLEAN :
             IF fault
             THEN /\ Raise("save", "OSError")
                  /\ files' = IF opened THEN WriteFile(files, name, Partial)
                              ELSE files
                  /\ UNCHANGED dirState
             ELSE /\ opened
                  /\ files' = WriteFile(files, name, Png(out))
                  /\ opLog' = Append(opLog, Entry("save", name, SIZES[idx],
                                                  out, NoImage, "PNG"))
                  /\ pc' = "wrote"
                  /\ UNCHANGED <<run, idx, argv, environ, pilInstalled,
                                 master, out, stdout, stderr, exitStatus,
                                 raisedAt, fsAtStart, prev, dirState>>
    /\ UNCHANGED probeVars

\* print(f"Wrote icon_{s}.png"), then the next pass or the end of the loop
PrintWrote ==
    /\ pc = "wrote"
    /\ stdout' = Append(stdout, "Wrote " \o IconName(SIZES[idx]))
    /\ idx' = idx + 1
    /\ pc' = IF idx + 1 > Len(SIZES) THEN "print_done" ELSE "select"
    /\ UNCHANGED <<run, argv, environ, pilInstalled, master, out, opLog,
                   stderr, exitStatus, raisedAt, fsAtStart, prev>>
    /\ UNCHANGED <<fsVars, probeVars>>

\* print("Done. ..."), main returns and the interpreter exits with 0
PrintDone ==
    /\ pc = "print_done"
    /\ stdout' = Append(stdout,
           "Done. Update Contents.json with filenames if not already set.")
    /\ exitStatus' = 0
    /\ pc' = "done"
    /\ UNCHANGED <<run, idx, argv, environ, pilInstalled, master, out, opLog,
                   stderr, raisedAt, fsAtStart, prev>>
    /\ UNCHANGED <<fsVars, probeVars>>

Ended == pc \in {"done", "exited", "raised"}

\* What is kept of an invocation that has ended.
Summary ==
    [pc |-> pc, argv |-> argv, environ |-> environ, pil |-> pilInstalled,
     opLog |-> opLog, stdout |-> stdout, stderr |-> stderr,
     exitStatus |-> exitStatus, fsEnd |-> <<dirState, files>>]

\* No invocation before the first one.
NoPrev ==
    [pc |-> "none", argv |-> <<>>, environ |-> {}, pil |-> FALSE,
     opLog |-> <<>>, stdout |-> <<>>, stderr |-> <<>>, exitStatus |-> -1,
     fsEnd |-> <<"absent", NoFiles>>]

\* python3 scripts/generate_app_icon.py, again: a new process, with its own
\* arguments and environment, on the file system and the Python installation
\* the last one left.
StartRun ==
    /\ Ended
    /\ run < MaxRuns
    /\ run' = run + 1
    /\ prev' = Summary
    /\ pc' = "import"
    /\ idx' = 1
    /\ argv' \in ArgvChoices
    /\ environ' \in EnvChoices
    /\ pilInstalled' = pilInstalled
    /\ master' = NoImage
    /\ out' = NoImage
    /\ opLog' = <<>>
    /\ stdout' = <<>>
    /\ stderr' = <<>>
    /\ exitStatus' = -1
    /\ raisedAt' = NotRaised
    /\ fsAtStart' = <<dirState, files>>
    /\ UNCHANGED <<fsVars, probeVars>>

Init ==
    /\ run = 1
    /\ pc = "import"
    /\ idx = 1
    /\ argv \in ArgvChoices
    /\ environ \in EnvChoices
    /\ pilInstalled \in BOOLEAN
    /\ master = NoImage
    /\ out = NoImage
    /\ opLog = <<>>
    /\ stdout = <<>>
    /\ stderr = <<>>
    /\ exitStatus = -1
    /\ raisedAt = NotRaised
    /\ \E fs \in InitialFs : dirState = fs[1] /\ files = fs[2]
    /\ fsAtStart = <<dirState, files>>
    /\ prev = NoPrev
    /\ probeArg = 0
    /\ rendered = <<>>

Next ==
    \/ ImportPIL
    \/ Mkdir
    \/ DrawMaster
    \/ SelectOut
    \/ Save
    \/ PrintWrote
    \/ PrintDone
    \/ StartRun

Spec == Init /\ [][Next]_vars

---------------------------------------------------------------------------
(* draw_icon called directly, at any size *)

\* draw_icon(probeArg), then draw_icon(probeArg + 1)
DrawProbe ==
    /\ Len(rendered) < 2
    /\ rendered' = Append(rendered, [size |-> probeArg + Len(rendered),
                                     img |-> DrawIcon(probeArg + Len(rendered))])
    /\ UNCHANGED <<probeArg, procVars, fsVars>>

InitDraw ==
    /\ probeArg \in 1..MaxDrawSize
    /\ rendered = <<>>
    /\ run = 1
    /\ pc = "idle"
    /\ idx = 1
    /\ argv = <<>>
    /\ environ = {}
    /\ pilInstalled = TRUE
    /\ master = NoImage
    /\ out = NoImage
    /\ opLog = <<>>
    /\ stdout = <<>>
    /\ stderr = <<>>
    /\ exitStatus = -1
    /\ raisedAt = NotRaised
    /\ dirState = "absent"
    /\ files = NoFiles
    /\ fsAtStart = <<dirState, files>>
    /\ prev = NoPrev

NextDraw == DrawProbe

SpecDraw == InitDraw /\ [][NextDraw]_vars

---------------------------------------------------------------------------
(* Properties *)

\* The sizes and the file names, as the documentation states them.
ExpectedSizes == <<16, 32, 64, 128, 256, 512, 1024>>
ExpectedNames ==
    <<"icon_16.png", "icon_32.png", "icon_64.png", "icon_128.png",
      "icon_256.png", "icon_512.png", "icon_1024.png">>
ExpectedNameSet == {ExpectedNames[j] : j \in 1..Len(ExpectedNames)}

IsSave(e) == e.op = "save"
IsResize(e) == e.op = "resize"
IsDraw(e) == e.op = "draw_icon"
\* The saves, resizes and draw_icon calls of the current invocation.
Saves == SelectSeq(opLog, IsSave)
Resizes == SelectSeq(opLog, IsResize)
Draws == SelectSeq(opLog, IsDraw)
FilesAtStart == fsAtStart[2]

IsPrefixOf(a, b) ==
    /\ Len(a) <= Len(b)
    /\ \A j \in 1..Len(a) : a[j] = b[j]

\* C1: when main has run to completion it has written exactly one PNG file
\* per size of SIZES into OUT_DIR, named icon_<s>.png: 7 saves, 7 distinct
\* names, each saved once, every one of them a complete PNG in the
\* directory, and every other file of the directory is as it was.
C1_OneFilePerSize ==
    pc = "done" =>
        /\ Len(Saves) = 7
        /\ {Saves[j].name : j \in 1..Len(Saves)} = ExpectedNameSet
        /\ Cardinality({Saves[j].name : j \in 1..Len(Saves)}) = 7
        /\ \A j \in 1..Len(Saves) :
             /\ Saves[j].name = ExpectedNames[j]
             /\ Saves[j].how = "PNG"
             /\ files[Saves[j].name].kind = "png"
        /\ DOMAIN files = DOMAIN FilesAtStart \cup ExpectedNameSet
        /\ \A n \in DOMAIN files \ ExpectedNameSet : files[n] = FilesAtStart[n]

C1_Witness ==
    /\ pc = "done"
    /\ "Contents.json" \in DOMAIN files
    /\ Len(Saves) = 7

\* C2: when PIL cannot be imported the script prints the hint to the error
\* stream and exits with status 1 at once: past the import the process has
\* exited, nothing was printed to standard output, no library call was made,
\* nothing was drawn and the file system is as it was found.
C2_MissingDependencyExits ==
    (~pilInstalled /\ pc # "import") =>
        /\ pc = "exited"
        /\ exitStatus = 1
        /\ stderr = <<"Install Pillow: pip install Pillow">>
        /\ stdout = <<>>
        /\ opLog = <<>>
        /\ master = NoImage
        /\ out = NoImage
        /\ <<dirState, files>> = fsAtStart

C2_Witness ==
    /\ ~pilInstalled
    /\ pc = "exited"
    /\ dirState = "absent"

\* C4: every image saved as icon_<s>.png is s x s pixels: the master is
\* 1024 x 1024 and is saved as it is for s = 1024; for every other s the
\* saved image is what the resize to (s, s) returned.
C4_SavedDimensions ==
    /\ \A j \in 1..Len(Saves) :
         /\ j <= Len(ExpectedSizes)
         /\ Saves[j].name = ExpectedNames[j]
         /\ Saves[j].img.w = ExpectedSizes[j]
         /\ Saves[j].img.h = ExpectedSizes[j]
         /\ files[ExpectedNames[j]] = Png(Saves[j].img)
         /\ ExpectedSizes[j] = 1024 =>
                /\ Saves[j].img = master
                /\ master.w = 1024
                /\ master.h = 1024
         /\ ExpectedSizes[j] # 1024 =>
                /\ j <= Len(Resizes)
                /\ Saves[j].img = Resizes[j].img
                /\ Resizes[j].size = ExpectedSizes[j]
    /\ \A j \in 1..Len(Draws) : Draws[j].img.w = 1024 /\ Draws[j].img.h = 1024

C4_Witness ==
    /\ pc = "done"
    /\ files["icon_16.png"].img.w = 16
    /\ files["icon_1024.png"].img.h = 1024

\* C5: draw_icon is called once per run, with MASTER_SIZE = 1024, before
\* any resize or save; every resize takes the master itself, unresized, with
\* the LANCZOS filter, to a size below the master's; the loop leaves the
\* master as draw_icon returned it; and the only image saved without a
\* resize is the one of size 1024.
C5_OneMasterRender ==
    /\ Len(Draws) <= 1
    /\ (Len(Saves) > 0 \/ Len(Resizes) > 0 \/ pc \in {"select", "save", "wrote", "print_done", "done"}) =>
         /\ Len(Draws) = 1
         /\ Len(opLog) >= 2
         /\ IsDraw(opLog[2])
         /\ opLog[2].size = 1024
         /\ master = opLog[2].img
         /\ master.gen = 0
    /\ \A j \in 1..Len(Resizes) :
         /\ Resizes[j].src = master
         /\ Resizes[j].src.gen = 0
         /\ Resizes[j].how = "LANCZOS"
         /\ Resizes[j].img.filter = "LANCZOS"
         /\ Resizes[j].img.gen = 1
         /\ Resizes[j].size < 1024
    /\ \A j \in 1..Len(Saves) :
         /\ Saves[j].img.gen = 0 <=> Saves[j].size = 1024
         /\ Saves[j].img.gen <= 1

C5_Witness ==
    /\ pc = "done"
    /\ Len(Resizes) = 6
    /\ Len(Draws) = 1

\* What each ended step leaves when its call raised.
C3_AfterRaise ==
    raisedAt # NotRaised =>
        /\ pc = "raised"
        /\ exitStatus = 1
        /\ stderr = <<"Traceback (most recent call last)">>
        /\ \A j \in 1..Len(stdout) : stdout[j] = "Wrote " \o ExpectedNames[j]
        /\ raisedAt.step = "mkdir" =>
             opLog = <<>> /\ stdout = <<>> /\ <<dirState, files>> = fsAtStart
        /\ raisedAt.step = "draw_icon" =>
             Len(opLog) = 1 /\ stdout = <<>> /\ master = NoImage
        /\ raisedAt.step = "resize" =>
             /\ Len(Resizes) = raisedAt.idx - 1
             /\ Len(Saves) = raisedAt.idx - 1
             /\ Len(stdout) = raisedAt.idx - 1
        /\ raisedAt.step = "save" =>
             /\ Len(Saves) = raisedAt.idx - 1
             /\ Len(stdout) = raisedAt.idx - 1

\* A step that raises changes neither the log nor standard output and is
\* recorded at the position main was at; once main has raised, the
\* invocation takes no further step (at most a new process is started).
C3_RaiseStep ==
    /\ (pc # "raised" /\ pc' = "raised") =>
         /\ pc \in {"mkdir", "draw", "select", "save"}
         /\ raisedAt'.step = (CASE pc = "mkdir" -> "mkdir"
                                [] pc = "draw" -> "draw_icon"
                                [] pc = "select" -> "resize"
                                [] OTHER -> "save")
         /\ raisedAt'.idx = idx
         /\ opLog' = opLog
         /\ stdout' = stdout
    /\ pc = "raised" =>
         \/ run' = run + 1
         \/ UNCHANGED <<pc, idx, master, out, opLog, stdout, stderr,
                        exitStatus, raisedAt, dirState, files>>

\* No call is made twice in one invocation.
C3_NoRetry ==
    \A i, j \in 1..Len(opLog) :
        (i # j) => <<opLog[i].op, opLog[i].size>> # <<opLog[j].op, opLog[j].size>>

\* C3: a failure of mkdir, draw_icon, resize or save is not handled: the
\* process ends with the traceback at the step that raised, no later step of
\* main runs (nothing more is saved, no further Wrote line and no Done line
\* is printed) and no call is repeated.
C3_FailurePropagates ==
    /\ []C3_AfterRaise
    /\ []C3_NoRetry
    /\ [][C3_RaiseStep]_vars

C3_Witness ==
    /\ pc = "raised"
    /\ raisedAt.step = "save"
    /\ raisedAt.idx = 4
    /\ Len(stdout) = 3

\* The degrees (mod 360) a ray's angular span covers.
Span(ray) == {d % 360 : d \in ray.lo..ray.hi}

\* What draw_icon(size) must have painted.
C6_Painted(size, img) ==
    LET L == img.layers
        rays == [k \in 1..8 |-> L[k + 2]]
    IN  /\ img.w = size /\ img.h = size
        /\ img.bg[4] = 0
        /\ Len(L) = 10
        /\ L[1].shape = "rounded_rectangle"
        /\ L[1].box = <<0, 0, size - 1, size - 1>>
        /\ L[2].shape = "ellipse"
        /\ L[2].width >= 1
        /\ \A k \in 1..8 :
             /\ rays[k].shape = "polygon"
             /\ rays[k].lo = (k - 1) * 45 - 20
             /\ rays[k].hi = (k - 1) * 45 + 20
             /\ 2 * rays[k].apex[1] = L[2].box[1] + L[2].box[3]
             /\ 2 * rays[k].apex[2] = L[2].box[2] + L[2].box[4]
             /\ (rays[IF k = 8 THEN 1 ELSE k + 1].lo - rays[k].hi) % 360 = 5
        /\ \A a, b \in 1..8 : a # b => Span(rays[a]) \cap Span(rays[b]) = {}

\* C6: draw_icon paints, on a transparent square canvas, the rounded
\* rectangle, then the circle with its outline, then exactly eight rays
\* centred at 0, 45, ..., 315 degrees, each from 20 degrees below its centre
\* to 20 above, so that no two rays overlap and neighbours are 5 degrees
\* apart; every ray has its apex at the circle's centre and is painted
\* after the circle.
C6_LayerOrder ==
    \A j \in 1..Len(rendered) : C6_Painted(rendered[j].size, rendered[j].img)

C6_Witness ==
    /\ Len(rendered) = 2
    /\ rendered[2].size = 1024
    /\ Len(rendered[2].img.layers) = 10

\* C7: what an invocation does depends on none of its inputs: of any two
\* invocations, each with its own arguments, environment and directory
\* content, the calls made (with their arguments and results) and the lines
\* printed by one are a prefix of the other's, and are the same when both
\* run to completion.
C7_Deterministic ==
    prev.pc # "none" =>
        /\ IsPrefixOf(opLog, prev.opLog) \/ IsPrefixOf(prev.opLog, opLog)
        /\ IsPrefixOf(stdout, prev.stdout) \/ IsPrefixOf(prev.stdout, stdout)
        /\ (prev.pc = "done" /\ pc = "done") =>
               /\ opLog = prev.opLog
               /\ stdout = prev.stdout
               /\ exitStatus = prev.exitStatus

C7_Witness ==
    /\ prev.pc = "done"
    /\ pc = "done"
    /\ prev.argv # argv
    /\ prev.environ # environ
    /\ ExpectedNameSet \subseteq DOMAIN FilesAtStart

C9_Idempotent ==
    /\ fsAtStart[1] \in {"dir", "absent", "no_parents"} =>
           raisedAt.exc # "FileExistsError"
    /\ opLog # <<>> =>
           /\ opLog[1].op = "mkdir"
           /\ dirState = "dir"
    /\ (prev.pc = "done" /\ pc = "done") =>
           /\ fsAtStart = prev.fsEnd
           /\ ExpectedNameSet \subseteq DOMAIN FilesAtStart
           /\ \A j \in 1..7 : files[ExpectedNames[j]] = Png(Saves[j].img)
           /\ DOMAIN files = DOMAIN prev.fsEnd[2]
           /\ files = prev.fsEnd[2]
           /\ dirState = "dir"

C9_Witness ==
    /\ prev.pc = "done"
    /\ pc = "done"
    /\ run = 2
    /\ Len(Saves) = 7

\* C10: for every size >= 1, draw_icon's corner radius is at least 2 and its
\* outline width at least 1, neither decreases when size grows, the width is
\* 1 below size 1024 and 2 at 1024, and the radius is 2 up to size 16 and
\* 184 at size 1024.
C10_RadiusAndWidth ==
    /\ \A j \in 1..Len(rendered) :
         LET size == rendered[j].size
             radius == rendered[j].img.layers[1].radius
             width == rendered[j].img.layers[2].width
         IN  /\ size >= 1
             /\ radius >= 2
             /\ width >= 1
             /\ size < 1024 => width = 1
             /\ size = 1024 => width = 2 /\ radius = 184
             /\ size <= 16 => radius = 2
    /\ Len(rendered) = 2 =>
         /\ rendered[2].size = rendered[1].size + 1
         /\ rendered[1].img.layers[1].radius <= rendered[2].img.layers[1].radius
         /\ rendered[1].img.layers[2].width <= rendered[2].img.layers[2].width

C10_Witness ==
    /\ Len(rendered) = 2
    /\ rendered[1].size = 1023
    /\ rendered[1].img.layers[2].width = 1
    /\ rendered[2].img.layers[2].width = 2
    /\ rendered[2].img.layers[1].radius = 184

=============================================================================
